---- MODULE Spec2Model ----
(***************************************************************************)
(* Session lifecycle of sveltekit-server-session (src/src/lib/session.js): *)
(* the manager (start, destroy, flush, setDurationUnix), the session       *)
(* record (getRemainingSeconds, destroy, addEventListener), the default    *)
(* storage interface over the in-process Map, and the expiry timers armed  *)
(* by start.  JavaScript runs one task at a time; every `await` is a       *)
(* suspension point, so each action below is the code that runs from one   *)
(* resumption up to and including the next awaited call.  A second         *)
(* specification, SpecExchange, follows one session cookie from            *)
(* response() through the browser back to start.                           *)
(***************************************************************************)
EXTENDS Integers, Sequences, FiniteSets, TLC

\* ------------------------------------------------------------------ bounds
\* Calls of start / destroy / flush issued in one run.
MaxOps == 3
\* Last value of the clock (seconds).
MaxTime == 1
\* Storage operations that may report a failure in one run.
MaxFails == 1
\* 'destroy' listeners the handlers register on one session.
MaxListeners == 2

\* ------------------------------------------------------- program constants
\* let durationUnix = 60 * 60 * 24 * 7
DefaultDuration == 604800

\* Request handlers that may be in flight at once.
Procs == {1, 2}
\* Values uuid() may return.
GenIds == {"a", "b"}
\* Session ids clients present (and handlers pass to session.destroy).
ClientIds == {"a"}
\* cookies.get(sessionKey) ?? '' : the empty string stands for "no cookie".
Cookies == {""} \cup ClientIds
\* Arguments of setDurationUnix({ seconds }).
Seconds == {-1, 1}
\* Callbacks handlers pass to addEventListener / removeEventListener.
Listeners == {"cb"}
\* Keys handlers write into session.data.
DataKeys == {"quote"}
\* undefined (Map.get of an unknown key, the value of ok()).
Undefined == 0
\* No response() call is being examined.  Otherwise: the session start
\* returned to the handler, the init passed to response(), the headers of the
\* Response, the cookie the browser keeps (kept, jar) and the session the
\* next start returned when presented that cookie.
NoExchange ==
  [step |-> "none", session |-> Undefined, init |-> [kind |-> "undefined", entries |-> <<>>],
   headers |-> <<>>, kept |-> FALSE, jar |-> <<>>, resolved |-> Undefined]

\* No uuid() call is being examined.  Otherwise: its argument `short`, the
\* values of Math.random() still to come (as Math.random() * 16, whole part),
\* `dt`, the characters of BLUEPRINT gone through and RESULT so far.
NoUuid ==
  [step |-> "none", short |-> FALSE, randoms |-> <<>>, dt |-> 0, pos |-> 0,
   result |-> <<>>]

VARIABLES
  durationUnix,  \* let durationUnix
  map,           \* the Map behind _interface, insertion-ordered <<[id, rec]>>:
                 \* `const map` of session.js until setOperations, the Map
                 \* of the installed operations afterwards
  recs,          \* every object create() has returned, by allocation order
  timers,        \* every setTimeout start has armed
  dtasks,        \* every call of a record's destroy()
  flushing,      \* let flushing
  proc,          \* the request handlers: position and locals
  now,           \* Math.floor(Date.now() / 1000)
  ops,           \* calls issued so far
  fails,         \* storage failures reported so far
  interface,     \* let _interface: "default", or "custom" after setOperations
  ownMap,        \* session.js's Map once other operations are installed
  http,          \* the response() call and cookie exchange being examined
  gen            \* the uuid() call being examined

vars == <<durationUnix, map, recs, timers, dtasks, flushing, proc, now, ops, fails,
          interface, ownMap, http, gen>>
\* What only setOperations, the cookie exchange and the uuid() call change.
aside == <<interface, ownMap, http, gen>>

\* ------------------------------------------------- sveltekit-unsafe results
\* An Unsafe result {value, error}.  `value` is kept as what the code reads
\* of it: its truthiness (`flag`) and the session it refers to (`ref`).
ok(flag, ref) == [error |-> FALSE, flag |-> flag, ref |-> ref]
error(e) == [error |-> TRUE, flag |-> FALSE, ref |-> Undefined]
\* ok() and ok(boolean), ok(session or undefined).
okVoid == ok(FALSE, Undefined)
okBool(b) == ok(b, Undefined)
okRef(r) == ok(r # Undefined, r)

\* Mutant of Failed: the failure is not looked at.
FailedIgnored(attempt) == FALSE
\* `if (attempt.error)`: the caller returns the failure.
Failed(attempt) == attempt.error
\* Mutant of Found: start creates a session whatever has() reports.
FoundNever(attempt) == FALSE
\* `if (hasAttempt.value)`: start takes the stored session.
Found(attempt) == attempt.flag

\* What a storage operation may report: the default operations always
\* return ok, installed ones may fail (and then change nothing).
Outcomes == IF interface = "custom" /\ fails < MaxFails THEN {"ok", "err"} ELSE {"ok"}
Count(o) == IF o = "err" THEN fails + 1 ELSE fails
\* The outcomes of a call that is made only when `called` holds.
OutcomesIf(called) == IF called THEN Outcomes ELSE {"ok"}

\* --------------------------------------------------------------- the Map
MapHas(m, id) == \E i \in 1..Len(m) : m[i].id = id
MapIndex(m, id) == CHOOSE i \in 1..Len(m) : m[i].id = id
MapGet(m, id) == IF MapHas(m, id) THEN m[MapIndex(m, id)].rec ELSE Undefined
\* Mutant of MapSet: the entry is added under the empty key.
MapSetUnkeyed(m, id, r) == Append(m, [id |-> "", rec |-> r])
MapSet(m, id, r) ==
  IF MapHas(m, id)
  THEN [i \in 1..Len(m) |-> IF m[i].id = id THEN [id |-> id, rec |-> r] ELSE m[i]]
  ELSE Append(m, [id |-> id, rec |-> r])
\* Mutant of MapDelete: the entry stays.
MapDeleteNothing(m, id) == m
MapDelete(m, id) == SelectSeq(m, LAMBDA e : e.id # id)
Stored(r) == \E i \in 1..Len(map) : map[i].rec = r

\* ------------------------------------------------------------ the record
\* Mutant of GetRemainingSeconds: the difference is returned as it is.
GetRemainingSecondsRaw(s, t) == s.expiresAtUnix - t
\* getRemainingSeconds() of session object s at clock value t.
GetRemainingSeconds(s, t) ==
  LET remaining == s.expiresAtUnix - t
  IN  IF remaining >= 0 THEN remaining ELSE 0

\* Mutant of NewMap: the Map made for the first session is passed to every
\* create.
NewMapShared == IF recs = <<>> THEN Len(recs) + 1 ELSE recs[1].dataMap
\* `new Map()`: a Map that is no session's data yet.  Maps are told apart
\* by a number, the sessions made so far having used one each.
NewMap == Len(recs) + 1
\* The keys of Map `data`, as the sessions that have it as their data hold them.
Contents(data) ==
  IF \E r \in 1..Len(recs) : recs[r].dataMap = data
  THEN recs[CHOOSE r \in 1..Len(recs) : recs[r].dataMap = data].data
  ELSE {}

\* create({ id, data }) at clock value t: `dataMap` is the Map passed as
\* data, `data` its keys.  `callbacks` is
\* events.get('destroy').  The rest of the fields after `destroyed` records
\* what happened: the callbacks destroy() has called, in order (invoked),
\* the listeners removeEventListener was called for before destroy()
\* completed and that were not added again (removed), the deletes destroy()
\* issued and what took the record out of the Map.
create(id, data, t) ==
  [id |-> id, dataMap |-> data, data |-> Contents(data), createdUnix |-> t, duration |-> durationUnix,
   expiresAtUnix |-> t + durationUnix, destroying |-> FALSE, destroyed |-> FALSE,
   callbacks |-> <<>>, invoked |-> <<>>, removed |-> {}, deletes |-> 0, gone |-> "no"]

\* ------------------------------------------------- the default operations
\* _interface.exists / has / get / isValid, reporting outcome o.
Exists(id, o) == IF o = "err" THEN error("exists") ELSE okBool(MapHas(map, id))
Has(id, o) == IF o = "err" THEN error("has") ELSE okBool(MapHas(map, id))
Get(id, o) == IF o = "err" THEN error("get") ELSE okRef(MapGet(map, id))
Set(o) == IF o = "err" THEN error("set") ELSE okVoid
Delete(o) == IF o = "err" THEN error("delete") ELSE okVoid
\* Mutant of IsValid: a stored session is valid, expired or not.
IsValidStored(id, o) ==
  IF o = "err" THEN error("isValid") ELSE okBool(MapHas(map, id))
IsValid(id, o) ==
  IF o = "err" THEN error("isValid")
  ELSE LET session == MapGet(map, id)
       IN  IF session = Undefined THEN okBool(FALSE)
           ELSE okBool(GetRemainingSeconds(recs[session], now) > 0)

\* ------------------------------------------------------------- handlers
\* The locals of a handler.  op, pc: the call it is in and the await it is
\* suspended at; cookie, id, att (the attempt awaited), made (the session
\* start created), ret (the session start returned, kept by the handler),
\* res (what the call returned), dt (the destroy() awaited), pos, cur, dts
\* (flush: the Map iterator, `session`, `destructors`; scanned: the sessions
\* it has looked at).  The rest records
\* what happened, for the properties: failed, late (a storage call reported
\* a failure; a storage call was issued after one), entry, entryLive,
\* entryData (the session stored under the id when the call was made,
\* whether it had time left, its data), dead (the sessions whose destroy()
\* had succeeded when start was called), asked, free, retried (the id
\* exists was last called with, whether exists reported the id start left
\* the loop with unused, whether a candidate was given up), stored, seen (at start's return:
\* whether the id was stored, the returned session's data), timer (the
\* timer start armed) and snap (see Snap).
Idle ==
  [op |-> "none", pc |-> "idle", cookie |-> "", id |-> "", att |-> okVoid,
   made |-> Undefined, ret |-> Undefined, res |-> "none", dt |-> 0,
   pos |-> 0, cur |-> Undefined, dts |-> <<>>, scanned |-> 0,
   failed |-> FALSE, late |-> FALSE, entry |-> Undefined, entryLive |-> FALSE,
   entryData |-> {}, dead |-> {}, asked |-> "", free |-> FALSE, retried |-> FALSE,
   stored |-> FALSE, seen |-> {}, timer |-> 0, snap |-> <<0, 0, 0>>]

\* A handler that has returned from its last call (or has made none).
Returned(p) ==
  \/ proc[p].pc \in {"idle", "done"}
  \/ proc[p].pc = "await" /\ dtasks[proc[p].dt].state = "done"

\* Nothing is in flight besides handler p.
Alone(p) ==
  /\ \A q \in Procs \ {p} : Returned(q)
  /\ \A k \in 1..Len(dtasks) : dtasks[k].state = "done"

\* Taken when handler p makes a call: the calls made so far, this one
\* included, and, when nothing else is in flight, the destroy() calls made
\* so far and the clock.
Snap(p) == IF Alone(p) THEN <<ops + 1, Len(dtasks), now>> ELSE <<ops + 1, -1, -1>>

\* Nothing has run since handler p made its call but the call itself, and
\* the clock has not advanced.
Quiet(p) == Alone(p) /\ proc[p].snap = <<ops, Len(dtasks), now>>

\* Handler p may make a call: it has returned from its last one, and an idle
\* handler is taken only when every handler before it has been (the handlers
\* are interchangeable).
CanCall(p) ==
  /\ ops < MaxOps
  /\ Returned(p)
  /\ proc[p].pc = "idle" => \A q \in Procs : q < p => proc[q].pc # "idle"

\* The locals of handler p after it issues a storage call that reports o.
Issue(s, pc, att, o) ==
  [s EXCEPT !.pc = pc, !.att = att,
            !.late = s.late \/ s.failed,
            !.failed = s.failed \/ (o = "err")]

\* The module as loaded, with f storage failures already counted.
InitWith(f) ==
  /\ durationUnix = DefaultDuration
  /\ map = <<>>
  /\ recs = <<>>
  /\ timers = <<>>
  /\ dtasks = <<>>
  /\ flushing = FALSE
  /\ proc = [p \in Procs |-> Idle]
  /\ now = 0
  /\ ops = 0
  /\ fails = f
  /\ interface = "default"
  /\ ownMap = <<>>
  /\ http = NoExchange
  /\ gen = NoUuid

Init == InitWith(0)
\* The same, with a backend that never fails (the default one).
InitReliable == InitWith(MaxFails)

\* Mutant of SetDurationUnix: the new duration is applied to the sessions
\* that exist as well.
SetDurationUnixOfAll(seconds) ==
  /\ ops < MaxOps
  /\ seconds # durationUnix
  /\ durationUnix' = seconds
  /\ recs' = [r \in 1..Len(recs) |->
                [recs[r] EXCEPT !.duration = seconds,
                                !.expiresAtUnix = recs[r].createdUnix + seconds]]
  /\ ops' = ops + 1
  /\ UNCHANGED <<map, timers, dtasks, flushing, proc, now, fails, aside>>

\* session.setDurationUnix({ seconds })
SetDurationUnix(seconds) ==
  /\ ops < MaxOps
  /\ seconds # durationUnix
  /\ durationUnix' = seconds
  /\ ops' = ops + 1
  /\ UNCHANGED <<map, recs, timers, dtasks, flushing, proc, now, fails, aside>>

\* `const map` of session.js, which flush iterates.
LibraryMap == IF interface = "default" THEN map ELSE ownMap

\* session.setOperations(operations), with operations over a Map of their
\* own: _interface = operations.  The sessions of session.js's Map stay in
\* it, out of reach of the installed operations.
SetOperations ==
  /\ ops < MaxOps
  /\ interface = "default"
  /\ interface' = "custom"
  /\ ownMap' = map
  /\ map' = <<>>
  /\ recs' = [r \in 1..Len(recs) |->
                IF Stored(r) THEN [recs[r] EXCEPT !.gone = "setOperations"] ELSE recs[r]]
  /\ ops' = ops + 1
  /\ UNCHANGED <<durationUnix, timers, dtasks, flushing, proc, now, fails, http, gen>>

\* The clock advances by one second.
Tick ==
  /\ now < MaxTime
  /\ now' = now + 1
  /\ UNCHANGED <<durationUnix, map, recs, timers, dtasks, flushing, proc, ops, fails, aside>>

\* ---------------------------------------------------------- session.start
\* Mutant of SetTimeout: clearTimeout(timer) is called at once instead of
\* being passed as the 'destroy' listener.
SetTimeoutCleared(sessionLocal) ==
  [rec |-> sessionLocal,
   due |-> now * 1000 + GetRemainingSeconds(recs[sessionLocal], now) * 1000,
   state |-> "cleared"]

\* setTimeout(run, sessionLocal.getRemainingSeconds() * 1000): the timer may
\* fire once the clock (in milliseconds) has reached `due`.
SetTimeout(sessionLocal) ==
  [rec |-> sessionLocal,
   due |-> now * 1000 + GetRemainingSeconds(recs[sessionLocal], now) * 1000,
   state |-> "armed"]

\* The tail of start: setTimeout(run, getRemainingSeconds() * 1000), then
\* addEventListener('destroy', () => clearTimeout(timer)), then return ok.
\* An undefined sessionLocal makes sessionLocal.getRemainingSeconds() throw
\* a TypeError, which rejects the promise start returned.
ArmAndReturn(p, sessionLocal) ==
  IF sessionLocal = Undefined
  THEN /\ proc' = [proc EXCEPT ![p] = [@ EXCEPT !.pc = "done", !.res = "raise"]]
       /\ UNCHANGED <<recs, timers>>
  ELSE LET timer == Len(timers) + 1
       IN  /\ timers' = Append(timers, SetTimeout(sessionLocal))
           /\ recs' = [recs EXCEPT ![sessionLocal].callbacks =
                         Append(@, [kind |-> "clear", n |-> timer])]
           /\ proc' = [proc EXCEPT ![p] =
                         [@ EXCEPT !.pc = "done", !.res = "ok", !.ret = sessionLocal,
                                   !.timer = timer,
                                   !.stored = MapHas(map, recs[sessionLocal].id),
                                   !.seen = recs[sessionLocal].data]]

\* A storage failure: return error(attempt.error).
ReturnError(p) ==
  proc' = [proc EXCEPT ![p] = [@ EXCEPT !.pc = "done", !.res = "err"]]

\* start({ cookies }) up to its first await: exists(uuid()) when the cookie
\* is absent or empty, has(id) otherwise.
StartCall(p, cookie) ==
  /\ CanCall(p)
  /\ ops' = ops + 1
  /\ LET s == [Idle EXCEPT !.op = "start", !.cookie = cookie, !.snap = Snap(p),
                           !.entry = MapGet(map, cookie),
                           !.dead = {r \in 1..Len(recs) : recs[r].destroyed},
                           !.entryData = IF MapHas(map, cookie)
                                         THEN recs[MapGet(map, cookie)].data ELSE {},
                           !.entryLive =
                              /\ MapHas(map, cookie)
                              /\ GetRemainingSeconds(recs[MapGet(map, cookie)], now) > 0]
     IN  \E o \in Outcomes :
           /\ fails' = Count(o)
           /\ IF cookie = ""
              THEN \E id \in GenIds :
                     proc' = [proc EXCEPT ![p] =
                                Issue([s EXCEPT !.id = id, !.asked = id], "exists",
                                      Exists(id, o), o)]
              ELSE proc' = [proc EXCEPT ![p] =
                              Issue([s EXCEPT !.id = cookie], "has", Has(cookie, o), o)]
  /\ UNCHANGED <<durationUnix, map, recs, timers, dtasks, flushing, now, aside>>

\* Mutant of Taken: the first candidate is kept whatever exists reports.
TakenNever(attempt) == FALSE
\* `exists = existsAttempt.value ... while (exists)`
Taken(attempt) == attempt.flag

\* start resumes with existsAttempt: the do-while over uuid() candidates.
StartExists(p) ==
  /\ proc[p].pc = "exists"
  /\ LET s == proc[p]
     IN  IF Failed(s.att)
         THEN ReturnError(p) /\ UNCHANGED fails
         ELSE \E o \in Outcomes :
                /\ fails' = Count(o)
                /\ IF Taken(s.att)
                   THEN \E id \in GenIds :
                          proc' = [proc EXCEPT ![p] =
                                     Issue([s EXCEPT !.id = id, !.asked = id, !.retried = TRUE],
                                           "exists", Exists(id, o), o)]
                   ELSE proc' = [proc EXCEPT ![p] =
                                   Issue([s EXCEPT !.free = ~s.att.flag], "has",
                                         Has(s.id, o), o)]
  /\ UNCHANGED <<durationUnix, map, recs, timers, dtasks, flushing, now, ops, aside>>

\* start resumes with hasAttempt: get(id), or create and set(id, sessionLocal).
StartHas(p) ==
  /\ proc[p].pc = "has"
  /\ LET s == proc[p]
     IN  IF Failed(s.att)
         THEN ReturnError(p) /\ UNCHANGED <<fails, map, recs>>
         ELSE \E o \in Outcomes :
                /\ fails' = Count(o)
                /\ IF Found(s.att)
                   THEN /\ proc' = [proc EXCEPT ![p] = Issue(s, "get", Get(s.id, o), o)]
                        /\ UNCHANGED <<map, recs>>
                   ELSE LET sessionLocal == Len(recs) + 1
                            old == MapGet(map, s.id)
                            made == Append(recs, create(s.id, NewMap, now))
                        IN  /\ recs' = IF o = "ok" /\ old # Undefined
                                       THEN [made EXCEPT ![old].gone = "overwritten"]
                                       ELSE made
                            /\ map' = IF o = "ok" THEN MapSet(map, s.id, sessionLocal) ELSE map
                            /\ proc' = [proc EXCEPT ![p] =
                                          Issue([s EXCEPT !.made = sessionLocal], "set",
                                                Set(o), o)]
  /\ UNCHANGED <<durationUnix, timers, dtasks, flushing, now, ops, aside>>

\* start resumes with getAttempt.
StartGet(p) ==
  /\ proc[p].pc = "get"
  /\ IF Failed(proc[p].att)
     THEN ReturnError(p) /\ UNCHANGED <<recs, timers>>
     ELSE ArmAndReturn(p, proc[p].att.ref)
  /\ UNCHANGED <<durationUnix, map, dtasks, flushing, now, ops, fails, aside>>

\* start resumes with setAttempt.
StartSet(p) ==
  /\ proc[p].pc = "set"
  /\ IF Failed(proc[p].att)
     THEN ReturnError(p) /\ UNCHANGED <<recs, timers>>
     ELSE ArmAndReturn(p, proc[p].made)
  /\ UNCHANGED <<durationUnix, map, dtasks, flushing, now, ops, fails, aside>>

\* ------------------------------------------------- the record's destroy()
\* The entry of `id` leaves the Map: the iterators flush holds over
\* session.js's Map step back when an entry they have passed leaves it.
AfterDelete(pr, id, o) ==
  IF o = "ok" /\ interface = "default" /\ MapHas(map, id)
  THEN [q \in Procs |->
          IF pr[q].pos >= MapIndex(map, id) THEN [pr[q] EXCEPT !.pos = @ - 1] ELSE pr[q]]
  ELSE pr

\* Mutant of WillDelete: `destroying` is reset when the delete has failed.
WillDeleteRetrying(r) ==
  /\ ~recs[r].destroyed
  /\ \A k \in 1..Len(dtasks) : dtasks[k].rec = r => dtasks[k].state # "deleting"
\* Mutant of WillDelete: no `if (destroying)` guard.
WillDeleteUnguarded(r) == ~recs[r].destroyed
\* destroy() of record r reaches `await _interface.delete(id)`: it is
\* neither destroyed nor being destroyed.
WillDelete(r) == ~recs[r].destroyed /\ ~recs[r].destroying
\* Mutant of AlreadyDestroyed: no `if (destroyed)` guard.
AlreadyDestroyedUnguarded(r) == FALSE
\* `if (destroyed) return ok()`
AlreadyDestroyed(r) == recs[r].destroyed

\* destroy() of record r, called by `owner`, up to its first await; the
\* delete it may issue reports o.  Sets recs', map' and dtasks'.  A task
\* records whether the record was destroyed when it was called (after) and
\* whether it found `destroying` set (waited) and whether the destroy()
\* that set it had not returned yet (during); a record counts the
\* deletes its destroy() issued (deletes) and what removed it from the Map
\* (gone: the caller of its own destroy(), or the destroy() of another
\* record stored under the same id before, "strayTimer" when that one was
\* run by a timer while this record had time left).
DestroyCall(r, owner, o) ==
  LET k == Len(dtasks) + 1
      task == [rec |-> r, owner |-> owner, state |-> "done", att |-> okVoid,
               res |-> "ok", after |-> recs[r].destroyed, waited |-> FALSE,
               during |-> \E j \in 1..Len(dtasks) :
                            dtasks[j].rec = r /\ dtasks[j].state = "deleting"]
      old == MapGet(map, recs[r].id)
  IN  IF AlreadyDestroyed(r)
      THEN /\ dtasks' = Append(dtasks, task)
           /\ UNCHANGED <<recs, map>>
      ELSE IF ~WillDelete(r)
      THEN /\ dtasks' = Append(dtasks, [task EXCEPT !.state = "waiting", !.res = "none",
                                                 !.waited = TRUE])
           /\ recs' = [recs EXCEPT ![r].callbacks = Append(@, [kind |-> "resolve", n |-> k])]
           /\ UNCHANGED map
      ELSE /\ dtasks' = Append(dtasks,
                          [task EXCEPT !.state = "deleting", !.res = "none",
                                       !.att = Delete(o)])
           /\ recs' = [i \in 1..Len(recs) |->
                         LET a == IF i = r
                                  THEN [recs[i] EXCEPT !.destroying = TRUE, !.deletes = @ + 1]
                                  ELSE recs[i]
                         IN  IF o = "ok" /\ i = old
                             THEN [a EXCEPT !.gone =
                                     IF i = r THEN owner
                                     ELSE IF owner = "timer" /\ GetRemainingSeconds(recs[i], now) > 0
                                     THEN "strayTimer" ELSE "other"]
                             ELSE a]
           /\ map' = IF o = "ok" THEN MapDelete(map, recs[r].id) ELSE map

\* Mutant of Callbacks: the list is gone through twice.
CallbacksTwice(r) == recs[r].callbacks \o recs[r].callbacks
\* `const callbacks = events.get('destroy') ?? []`
Callbacks(r) == recs[r].callbacks

\* destroy() resumes with destroyAttempt: on success it marks the record
\* destroyed and calls every 'destroy' callback (clearTimeout of a timer,
\* or the resolve of a destroy() call that found this one in flight).
DestroyResume(k) ==
  /\ k \in 1..Len(dtasks)
  /\ dtasks[k].state = "deleting"
  /\ LET r == dtasks[k].rec
         callbacks == Callbacks(r)
         cleared == {callbacks[i].n : i \in {j \in 1..Len(callbacks) : callbacks[j].kind = "clear"}}
         resolved == {callbacks[i].n : i \in {j \in 1..Len(callbacks) : callbacks[j].kind = "resolve"}}
     IN  IF Failed(dtasks[k].att)
         THEN /\ dtasks' = [dtasks EXCEPT ![k].state = "done", ![k].res = "err"]
              /\ UNCHANGED <<recs, timers>>
         ELSE /\ recs' = [recs EXCEPT ![r].destroyed = TRUE, ![r].invoked = @ \o callbacks]
              /\ timers' = [j \in 1..Len(timers) |->
                              IF j \in cleared /\ timers[j].state = "armed"
                              THEN [timers[j] EXCEPT !.state = "cleared"]
                              ELSE timers[j]]
              /\ dtasks' = [i \in 1..Len(dtasks) |->
                              IF i = k \/ i \in resolved
                              THEN [dtasks[i] EXCEPT !.state = "done", !.res = "ok"]
                              ELSE dtasks[i]]
  /\ UNCHANGED <<durationUnix, map, flushing, proc, now, ops, fails, aside>>

\* A handler calls addEventListener('destroy', callback) on the session
\* start gave it: callbacks.push(callback).
AddEventListener(p, callback) ==
  /\ Returned(p)
  /\ proc[p].ret # Undefined
  /\ LET r == proc[p].ret
         callbacks == recs[r].callbacks
     IN  /\ Cardinality({i \in 1..Len(callbacks) : callbacks[i].kind = "user"}) < MaxListeners
         /\ recs' = [recs EXCEPT ![r].callbacks = Append(@, [kind |-> "user", n |-> callback]),
                                 ![r].removed = @ \ {callback}]
  /\ UNCHANGED <<durationUnix, map, timers, dtasks, flushing, proc, now, ops, fails, aside>>

\* callbacks.filter(pass): a new array without `callback`.
Filter(callbacks, callback) ==
  SelectSeq(callbacks, LAMBDA callbackLocal : callbackLocal # [kind |-> "user", n |-> callback])

\* A handler calls removeEventListener('destroy', callback): the array
\* filter returns is dropped, and events.set(event, callbacks) puts back the
\* array that was there.
RemoveEventListener(p, callback) ==
  /\ Returned(p)
  /\ proc[p].ret # Undefined
  /\ LET r == proc[p].ret
         callbacks == recs[r].callbacks
         filtered == Filter(callbacks, callback)
     IN  recs' = [recs EXCEPT ![r].callbacks = callbacks,
                              ![r].removed = IF recs[r].destroyed THEN @ ELSE @ \cup {callback}]
  /\ UNCHANGED <<durationUnix, map, timers, dtasks, flushing, proc, now, ops, fails, aside>>

\* A handler calls destroy() on the session start gave it and awaits it.
RDestroyCall(p) ==
  /\ CanCall(p)
  /\ proc[p].ret # Undefined
  /\ ops' = ops + 1
  /\ \E o \in OutcomesIf(WillDelete(proc[p].ret)) :
       /\ fails' = Count(o)
       /\ DestroyCall(proc[p].ret, "record", o)
       /\ proc' = [AfterDelete(proc, recs[proc[p].ret].id, IF WillDelete(proc[p].ret) THEN o ELSE "err")
                     EXCEPT ![p] = [@ EXCEPT !.op = "destroy()", !.pc = "await",
                                             !.dt = Len(dtasks) + 1, !.snap = Snap(p)]]
  /\ UNCHANGED <<durationUnix, timers, flushing, now, aside>>

\* The timer start armed fires: async function run() { await sessionLocal.destroy() }
TimerFire(j) ==
  /\ j \in 1..Len(timers)
  /\ timers[j].state = "armed"
  /\ now * 1000 >= timers[j].due
  /\ timers' = [timers EXCEPT ![j].state = "fired"]
  /\ \E o \in OutcomesIf(WillDelete(timers[j].rec)) :
       /\ fails' = Count(o)
       /\ DestroyCall(timers[j].rec, "timer", o)
       /\ proc' = AfterDelete(proc, recs[timers[j].rec].id,
                              IF WillDelete(timers[j].rec) THEN o ELSE "err")
  /\ UNCHANGED <<durationUnix, flushing, now, ops, aside>>

\* -------------------------------------------------------- session.destroy
\* Mutant of Missing: the session get returned is not looked at.
MissingNever(attempt) == FALSE
\* `if (!session)`: get returned ok(undefined).
Missing(attempt) == ~attempt.flag

\* destroy({ id }) up to its first await: get(id).
MDestroyCall(p, id) ==
  /\ CanCall(p)
  /\ ops' = ops + 1
  /\ \E o \in Outcomes :
       /\ fails' = Count(o)
       /\ proc' = [proc EXCEPT ![p] =
                     Issue([Idle EXCEPT !.op = "destroy", !.id = id, !.snap = Snap(p),
                                        !.entry = MapGet(map, id)],
                           "mget", Get(id, o), o)]
  /\ UNCHANGED <<durationUnix, map, recs, timers, dtasks, flushing, now, aside>>

\* destroy({ id }) resumes with getAttempt: not found, or delete(id).
MDestroyGet(p) ==
  /\ proc[p].pc = "mget"
  /\ LET s == proc[p]
         old == MapGet(map, s.id)
     IN  IF Failed(s.att)
         THEN ReturnError(p) /\ UNCHANGED <<map, recs, fails>>
         ELSE IF Missing(s.att)
         THEN /\ proc' = [proc EXCEPT ![p] = [@ EXCEPT !.pc = "done", !.res = "notfound"]]
              /\ UNCHANGED <<map, recs, fails>>
         ELSE \E o \in Outcomes :
                /\ fails' = Count(o)
                /\ map' = IF o = "ok" THEN MapDelete(map, s.id) ELSE map
                /\ recs' = IF o = "ok" /\ old # Undefined
                           THEN [recs EXCEPT ![old].gone = "manager"]
                           ELSE recs
                /\ proc' = [AfterDelete(proc, s.id, o) EXCEPT ![p] =
                              Issue(s, "mdelete", Delete(o), o)]
  /\ UNCHANGED <<durationUnix, timers, dtasks, flushing, now, ops, aside>>

\* destroy({ id }) resumes with deleteAttempt.
MDestroyDelete(p) ==
  /\ proc[p].pc = "mdelete"
  /\ IF Failed(proc[p].att)
     THEN ReturnError(p)
     ELSE proc' = [proc EXCEPT ![p] = [@ EXCEPT !.pc = "done", !.res = "ok"]]
  /\ UNCHANGED <<durationUnix, map, recs, timers, dtasks, flushing, now, ops, fails, aside>>

\* ---------------------------------------------------------- session.flush
\* `if (await _interface.isValid(session.id))` tests the awaited Unsafe
\* result itself, an object: every object is truthy, whatever its value.
IsTruthy(attempt) == TRUE

\* The head of `for (const [, session] of map)` for locals s, iterating
\* session.js's Map `own`, with Map m behind _interface and records rs: the
\* next entry is taken and isValid(session.id) is awaited (reporting o), or
\* the loop ends and Promise.all(destructors) is awaited.  `scanned` counts
\* the sessions this flush has looked at.
FlushLoop(s, own, m, rs, o) ==
  IF s.pos < Len(own)
  THEN LET session == own[s.pos + 1].rec
           id == rs[session].id
           attempt == IF o = "err" THEN error("isValid")
                      ELSE IF ~MapHas(m, id) THEN okBool(FALSE)
                      ELSE okBool(GetRemainingSeconds(rs[MapGet(m, id)], now) > 0)
       IN  Issue([s EXCEPT !.pos = s.pos + 1, !.cur = session, !.scanned = @ + 1],
                 "isValid", attempt, o)
  ELSE [s EXCEPT !.pc = "all", !.pos = 0, !.cur = Undefined]

\* Mutant of Flushing: the semaphore is not looked at.
FlushingIgnored == FALSE
\* `if (flushing) return`
Flushing == flushing

\* flush() up to its first await; a call that finds the semaphore taken
\* returns at once.
FlushCall(p) ==
  /\ CanCall(p)
  /\ ops' = ops + 1
  /\ LET s == [Idle EXCEPT !.op = "flush", !.snap = Snap(p)]
     IN  IF Flushing
         THEN /\ proc' = [proc EXCEPT ![p] = [s EXCEPT !.pc = "done", !.res = "dropped"]]
              /\ UNCHANGED <<flushing, fails>>
         ELSE /\ flushing' = TRUE
              /\ \E o \in OutcomesIf(Len(LibraryMap) > 0) :
                   /\ fails' = Count(o)
                   /\ proc' = [proc EXCEPT ![p] = FlushLoop(s, LibraryMap, map, recs, o)]
  /\ UNCHANGED <<durationUnix, map, recs, timers, dtasks, now, aside>>

\* flush() resumes with the result of isValid: continue, or
\* destructors.push(session.destroy()); then the next turn of the loop.
FlushIsValid(p) ==
  /\ proc[p].pc = "isValid"
  /\ LET s == proc[p]
     IN  IF IsTruthy(s.att)
         THEN /\ \E o \in OutcomesIf(s.pos < Len(LibraryMap)) :
                   /\ fails' = Count(o)
                   /\ proc' = [proc EXCEPT ![p] = FlushLoop(s, LibraryMap, map, recs, o)]
              /\ UNCHANGED <<map, recs, dtasks>>
         ELSE \E o1 \in OutcomesIf(WillDelete(s.cur)) :
                /\ DestroyCall(s.cur, "flush", o1)
                /\ LET pr == AfterDelete(proc, recs[s.cur].id,
                                         IF WillDelete(s.cur) THEN o1 ELSE "err")
                       t == [pr[p] EXCEPT !.dts = Append(@, Len(dtasks) + 1)]
                       own == IF interface = "default" THEN map' ELSE ownMap
                   IN  \E o2 \in IF /\ t.pos < Len(own) /\ interface = "custom"
                                    /\ Count(o1) < MaxFails
                                 THEN {"ok", "err"} ELSE {"ok"} :
                         /\ fails' = Count(o1) + (IF o2 = "err" THEN 1 ELSE 0)
                         /\ proc' = [pr EXCEPT ![p] = FlushLoop(t, own, map', recs', o2)]
  /\ UNCHANGED <<durationUnix, timers, flushing, now, ops, aside>>

\* Mutant of FlushAll: the semaphore is not released.
FlushAllHolding(p) ==
  /\ proc[p].pc = "all"
  /\ \A i \in 1..Len(proc[p].dts) : dtasks[proc[p].dts[i]].state = "done"
  /\ proc' = [proc EXCEPT ![p] = [@ EXCEPT !.pc = "done", !.res = "swept"]]
  /\ UNCHANGED <<durationUnix, map, recs, timers, dtasks, flushing, now, ops, fails, aside>>

\* flush() resumes after `await Promise.all(destructors)`: flushing = false.
FlushAll(p) ==
  /\ proc[p].pc = "all"
  /\ \A i \in 1..Len(proc[p].dts) : dtasks[proc[p].dts[i]].state = "done"
  /\ flushing' = FALSE
  /\ proc' = [proc EXCEPT ![p] = [@ EXCEPT !.pc = "done", !.res = "swept"]]
  /\ UNCHANGED <<durationUnix, map, recs, timers, dtasks, now, ops, fails, aside>>

\* A handler writes into the data of the session start gave it:
\* data.set('quote', ...).  Every session that has this Map as its data
\* shows the key.
Write(p, key) ==
  /\ Returned(p)
  /\ proc[p].ret # Undefined
  /\ key \notin recs[proc[p].ret].data
  /\ recs' = [r \in 1..Len(recs) |->
                IF recs[r].dataMap = recs[proc[p].ret].dataMap
                THEN [recs[r] EXCEPT !.data = @ \cup {key}]
                ELSE recs[r]]
  /\ UNCHANGED <<durationUnix, map, timers, dtasks, flushing, proc, now, ops, fails, aside>>

\* session.start({ cookies })
Starting ==
  \/ \E p \in Procs, cookie \in Cookies : StartCall(p, cookie)
  \/ \E p \in Procs : StartExists(p)
  \/ \E p \in Procs : StartHas(p)
  \/ \E p \in Procs : StartGet(p)
  \/ \E p \in Procs : StartSet(p)

\* destroy() of a session, called by a handler
Destroying ==
  \/ \E p \in Procs : RDestroyCall(p)
  \/ \E k \in 1..Len(dtasks) : DestroyResume(k)

\* Time passes and timers fire.
Expiring ==
  \/ Tick
  \/ \E j \in 1..Len(timers) : TimerFire(j)

\* session.destroy({ id })
Managing ==
  \/ \E p \in Procs, id \in ClientIds : MDestroyCall(p, id)
  \/ \E p \in Procs : MDestroyGet(p)
  \/ \E p \in Procs : MDestroyDelete(p)

\* What starts sessions and what ends them.
Lifecycle == Starting \/ Destroying \/ Expiring \/ Managing

\* session.flush()
Sweep ==
  \/ \E p \in Procs : FlushCall(p)
  \/ \E p \in Procs : FlushIsValid(p)
  \/ \E p \in Procs : FlushAll(p)

\* The handlers register and remove 'destroy' listeners.
Registering ==
  \/ \E p \in Procs, callback \in Listeners : AddEventListener(p, callback)
  \/ \E p \in Procs, callback \in Listeners : RemoveEventListener(p, callback)

Next ==
  \/ \E seconds \in Seconds : SetDurationUnix(seconds)
  \/ SetOperations
  \/ \E p \in Procs, key \in DataKeys : Write(p, key)
  \/ Lifecycle
  \/ Sweep

Spec == Init /\ [][Next]_vars

\* The event loop runs every timer that is due and resumes every destroy()
\* whose delete has settled.
Fairness ==
  \A k \in 1..MaxOps : WF_vars(DestroyResume(k)) /\ WF_vars(TimerFire(k))

\* Every storage operation succeeds, and the event loop keeps running.
SpecReliable == InitReliable /\ [][Next]_vars /\ Fairness

\* flush() is resumed when the isValid it awaits and the destroy() calls it
\* awaits have settled.
FlushFairness ==
  \A p \in Procs : WF_vars(FlushIsValid(p)) /\ WF_vars(FlushAll(p))

\* The module with an event loop that keeps running, under start, destroy()
\* and flush.
SpecSweep ==
  Init /\ [][SetOperations \/ Starting \/ Destroying \/ Sweep]_vars /\ Fairness /\ FlushFairness

\* The module once the application has started: a route module has called
\* session.setOperations(...) as it was loaded, with operations over a Map
\* of its own that may report failures, and the application has called
\* session.setDurationUnix({ seconds: 1 }).  No session was started before.
InitConfigured ==
  /\ durationUnix = 1
  /\ map = <<>>
  /\ recs = <<>>
  /\ timers = <<>>
  /\ dtasks = <<>>
  /\ flushing = FALSE
  /\ proc = [p \in Procs |-> Idle]
  /\ now = 0
  /\ ops = 0
  /\ fails = 0
  /\ interface = "custom"
  /\ ownMap = <<>>
  /\ http = NoExchange
  /\ gen = NoUuid

\* The sessions of the started application.
SpecConfigured == InitConfigured /\ [][Lifecycle]_vars /\ Fairness

\* The same, with handlers that register and remove listeners.
SpecListeners ==
  InitConfigured /\ [][Starting \/ Destroying \/ Registering]_vars

\* ------------------------------------------- response() and the cookie
\* Session ids as strings of characters, for what encodeURI, the browser
\* and cookies.get do to them.
MaxIdLen == 2
Chars == {"a", ";", "%", " "}
\* Ids a client may present: cookies.get returns any string the client
\* sends percent-encoded.
Ids == UNION {[1..n -> Chars] : n \in 1..MaxIdLen}
\* Values uuid() may return, as strings of characters.
MintIds == {<<"a">>, <<"a", "a">>}
\* let sessionKey = 'KITSESSID'
sessionKey == <<"KITSESSID">>

\* encodeURI: letters and the reserved characters ; / ? : @ & = + $ , # stay
\* as they are, a space and a percent sign are escaped.
EncodeURIChar(c) ==
  CASE c = " " -> <<"%", "2", "0">>
    [] c = "%" -> <<"%", "2", "5">>
    [] OTHER -> <<c>>

RECURSIVE EncodeURI(_)
EncodeURI(str) ==
  IF str = <<>> THEN <<>> ELSE EncodeURIChar(Head(str)) \o EncodeURI(Tail(str))

\* new Date(ms).toUTCString(): one date string per instant.
ToUTCString(ms) == ToString(ms)

\* `${cookieName}=${cookieValue}; Expires=${cookieExpires}; Path=/`
SetCookie(s) ==
  EncodeURI(sessionKey) \o <<"=">> \o EncodeURI(s.id)
    \o <<";", " ", "Expires=", ToUTCString(s.expiresAtUnix * 1000), ";", " ", "Path=/">>

\* The part of str before the first c (all of it when there is none), and
\* the part after it.
RECURSIVE Before(_, _)
Before(str, c) ==
  IF str = <<>> \/ Head(str) = c THEN <<>> ELSE <<Head(str)>> \o Before(Tail(str), c)
After(str, c) == SubSeq(str, Len(Before(str, c)) + 2, Len(str))

\* decodeURIComponent as cookies.get applies it: every escape is replaced
\* by its character; a string with a malformed escape is returned as it is.
Escapes == {<<"2", "0">>, <<"2", "5">>, <<"3", "B">>}
Unescape(pair) ==
  CASE pair = <<"2", "0">> -> " "
    [] pair = <<"2", "5">> -> "%"
    [] pair = <<"3", "B">> -> ";"
RECURSIVE Malformed(_)
Malformed(str) ==
  IF str = <<>> THEN FALSE
  ELSE IF Head(str) = "%"
  THEN Len(str) < 3 \/ SubSeq(str, 2, 3) \notin Escapes \/ Malformed(SubSeq(str, 4, Len(str)))
  ELSE Malformed(Tail(str))
RECURSIVE Unescaped(_)
Unescaped(str) ==
  IF str = <<>> THEN <<>>
  ELSE IF Head(str) = "%"
  THEN <<Unescape(SubSeq(str, 2, 3))>> \o Unescaped(SubSeq(str, 4, Len(str)))
  ELSE <<Head(str)>> \o Unescaped(Tail(str))
DecodeURIComponent(str) == IF Malformed(str) THEN str ELSE Unescaped(str)

\* What a handler may pass as init.headers: nothing, a plain object, a
\* Headers instance or an array of pairs, with one header.
HeaderNames == {"X-A", "Set-Cookie", "set-cookie"}
HeaderValue == <<"v">>
Inits ==
  {[kind |-> "undefined", entries |-> <<>>]}
    \cup {[kind |-> k, entries |-> <<[name |-> n, value |-> HeaderValue]>>] :
            k \in {"object", "Headers", "array"}, n \in HeaderNames}

\* Header names are matched without regard to case.
Lower(name) ==
  CASE name = "Set-Cookie" -> "set-cookie"
    [] name = "X-A" -> "x-a"
    [] OTHER -> name

\* `...init?.headers`: the own enumerable properties of init.headers.  A
\* plain object gives its entries, a Headers instance has none, an array
\* gives one property per index, whose value is the pair.
Spread(init) ==
  CASE init.kind = "object" -> init.entries
    [] init.kind = "array" ->
         [i \in 1..Len(init.entries) |->
            [name |-> ToString(i - 1),
             value |-> <<init.entries[i].name, ",">> \o init.entries[i].value]]
    [] OTHER -> <<>>

\* An object literal: a later property of the same name replaces the
\* value of the earlier one.
RECURSIVE ObjectLiteral(_, _)
ObjectLiteral(obj, props) ==
  IF props = <<>> THEN obj
  ELSE LET e == Head(props)
           at == {i \in 1..Len(obj) : obj[i].name = e.name}
       IN  ObjectLiteral(IF at = {} THEN Append(obj, e)
                         ELSE [i \in 1..Len(obj) |-> IF i \in at THEN e ELSE obj[i]],
                         Tail(props))

\* The headers of new Response(body, { ...init, headers: { 'Set-Cookie':
\* ..., ...init?.headers } }) for session object s.
ResponseHeaders(s, init) ==
  LET obj == ObjectLiteral(<<[name |-> "Set-Cookie", value |-> SetCookie(s)]>>, Spread(init))
  IN  [i \in 1..Len(obj) |-> [name |-> Lower(obj[i].name), value |-> obj[i].value]]

\* start({ cookies }) with cookies.get(sessionKey) = cookie, run from call
\* to return over the default operations with nothing else running; the
\* session it returns goes to `field` of http, at step `step`.
StartAlone(cookie, step, field) ==
  \E id \in IF cookie = <<>> THEN {g \in MintIds : ~MapHas(map, g)} ELSE {cookie} :
    LET found == MapHas(map, id)
        sessionLocal == IF found THEN MapGet(map, id) ELSE Len(recs) + 1
        rs == IF found THEN recs ELSE Append(recs, create(id, NewMap, now))
        timer == Len(timers) + 1
    IN  /\ map' = IF found THEN map ELSE MapSet(map, id, sessionLocal)
        /\ timers' = Append(timers,
                       [rec |-> sessionLocal,
                        due |-> now * 1000 + GetRemainingSeconds(rs[sessionLocal], now) * 1000,
                        state |-> "armed"])
        /\ recs' = [rs EXCEPT ![sessionLocal].callbacks =
                      Append(@, [kind |-> "clear", n |-> timer])]
        /\ http' = [http EXCEPT !.step = step, ![field] = sessionLocal]

\* A request arrives with no session cookie, or with one of the client's
\* choosing, and the handler starts the session.
Request(cookie) ==
  /\ http.step = "none"
  /\ StartAlone(cookie, "started", "session")
  /\ UNCHANGED <<durationUnix, dtasks, flushing, proc, now, ops, fails, interface, ownMap, gen>>

\* The handler returns session.response(body, init).
Respond(init) ==
  /\ http.step = "started"
  /\ http' = [http EXCEPT !.step = "responded", !.init = init,
                          !.headers = ResponseHeaders(recs[http.session], init)]
  /\ UNCHANGED <<durationUnix, map, recs, timers, dtasks, flushing, proc, now, ops, fails,
                 interface, ownMap, gen>>

\* The browser reads the Set-Cookie headers of the response: the cookie
\* pair is what stands before the first semicolon, name before the first
\* equals sign and value after it.  It keeps the cookie named sessionKey.
Receive ==
  /\ http.step = "responded"
  /\ LET pairs == {Before(http.headers[i].value, ";") :
                     i \in {j \in 1..Len(http.headers) : http.headers[j].name = "set-cookie"}}
         ours == {pair \in pairs : Before(pair, "=") = sessionKey}
     IN  \/ /\ ours = {}
            /\ http' = [http EXCEPT !.step = "received"]
         \/ \E pair \in ours :
              http' = [http EXCEPT !.step = "received", !.kept = TRUE,
                                   !.jar = After(pair, "=")]
  /\ UNCHANGED <<durationUnix, map, recs, timers, dtasks, flushing, proc, now, ops, fails,
                 interface, ownMap, gen>>

\* The browser sends the cookie it kept with its next request, and the
\* handler starts the session: cookies.get(sessionKey) ?? ''.
Return ==
  /\ http.step = "received"
  /\ http.kept
  /\ StartAlone(DecodeURIComponent(http.jar), "returned", "resolved")
  /\ UNCHANGED <<durationUnix, dtasks, flushing, proc, now, ops, fails, interface, ownMap, gen>>

NextExchange ==
  \/ \E cookie \in {<<>>} \cup Ids : Request(cookie)
  \/ \E init \in Inits : Respond(init)
  \/ Receive
  \/ Return

\* One client's exchange with a handler: request, response, next request.
SpecExchange == Init /\ [][NextExchange]_vars

\* ------------------------------------------------------------------ uuid
\* Values of `new Date().getTime()`, of zero to five hexadecimal digits.
Times == {0, 11, 255, 1048575}
\* Values of Math.random() * 16, whole part: Math.random() is in [0, 1).
Randoms == 0..15
\* The values one call draws come round again after MaxRandoms of them.
MaxRandoms == 2

\* BLUEPRINT: short ? 'xyxxyxyx' : 'xxxxxxxx-xxxx-yxxx-yxxx-xxxxxxxxxxxx'
Blueprint(short) ==
  IF short
  THEN <<"x", "y", "x", "x", "y", "x", "y", "x">>
  ELSE <<"x", "x", "x", "x", "x", "x", "x", "x", "-", "x", "x", "x", "x", "-",
         "y", "x", "x", "x", "-", "y", "x", "x", "x", "-",
         "x", "x", "x", "x", "x", "x", "x", "x", "x", "x", "x", "x">>

\* Number.prototype.toString(16) of n in 0..15.
ToString16(n) ==
  <<"0", "1", "2", "3", "4", "5", "6", "7", "8", "9", "a", "b", "c", "d", "e", "f">>[n + 1]

\* Mutant of Variant: the digit is returned as drawn.
VariantUnmasked(r) == r
\* (r & 0x3) | 0x8, for r in 0..15: the two low bits of r, with bit 3 set.
Variant(r) == (r % 4) + 8

\* uuid({ short }) is called: dt = new Date().getTime().
Uuid(short, dt, randoms) ==
  /\ gen.step = "none"
  /\ gen' = [step |-> "replacing", short |-> short, randoms |-> randoms, dt |-> dt,
             pos |-> 0, result |-> <<>>]
  /\ UNCHANGED <<durationUnix, map, recs, timers, dtasks, flushing, proc, now, ops, fails,
                 interface, ownMap, http>>

\* BLUEPRINT.replace(/[xy]/g, check) reaches a character that is not matched
\* and copies it.
Copy ==
  /\ gen.step = "replacing"
  /\ gen.pos < Len(Blueprint(gen.short))
  /\ Blueprint(gen.short)[gen.pos + 1] \notin {"x", "y"}
  /\ gen' = [gen EXCEPT !.pos = @ + 1,
                        !.result = Append(@, Blueprint(gen.short)[gen.pos + 1])]
  /\ UNCHANGED <<durationUnix, map, recs, timers, dtasks, flushing, proc, now, ops, fails,
                 interface, ownMap, http>>

\* replace reaches an x or a y and calls check(c):
\* r = (dt + Math.random() * 16) % 16 | 0, dt = Math.floor(dt / 16), and the
\* character returned takes the place of c.
Check ==
  /\ gen.step = "replacing"
  /\ gen.pos < Len(Blueprint(gen.short))
  /\ Blueprint(gen.short)[gen.pos + 1] \in {"x", "y"}
  /\ LET c == Blueprint(gen.short)[gen.pos + 1]
         r == (gen.dt + Head(gen.randoms)) % 16
     IN  gen' = [gen EXCEPT !.pos = @ + 1,
                           !.dt = gen.dt \div 16,
                           !.randoms = Append(Tail(@), Head(@)),
                           !.result = Append(@, ToString16(IF c = "x" THEN r ELSE Variant(r)))]
  /\ UNCHANGED <<durationUnix, map, recs, timers, dtasks, flushing, proc, now, ops, fails,
                 interface, ownMap, http>>

\* replace has gone through BLUEPRINT: return RESULT.
UuidReturn ==
  /\ gen.step = "replacing"
  /\ gen.pos = Len(Blueprint(gen.short))
  /\ gen' = [gen EXCEPT !.step = "returned"]
  /\ UNCHANGED <<durationUnix, map, recs, timers, dtasks, flushing, proc, now, ops, fails,
                 interface, ownMap, http>>

NextUuid ==
  \/ \E short \in BOOLEAN, dt \in Times, randoms \in [1..MaxRandoms -> Randoms] :
       Uuid(short, dt, randoms)
  \/ Copy
  \/ Check
  \/ UuidReturn

\* One call of uuid().
SpecUuid == Init /\ [][NextUuid]_vars

\* ------------------------------------------------------------ properties
StartDone(p) == proc[p].op = "start" /\ proc[p].pc = "done"

\* C1: start with no presented id returns success with a freshly created
\* record whose data is empty, whose getRemainingSeconds() at creation equals
\* the configured duration, and whose id exists in the store when start
\* returns (every storage operation succeeding, nothing else running).
C1_FreshSession ==
  \A p \in Procs :
    (StartDone(p) /\ proc[p].cookie = "" /\ ~proc[p].failed /\ Quiet(p))
      => /\ proc[p].res = "ok"
         /\ proc[p].made # Undefined
         /\ proc[p].ret = proc[p].made
         /\ proc[p].seen = {}
         /\ proc[p].stored
         /\ LET s == recs[proc[p].made]
            IN  GetRemainingSeconds(s, s.createdUnix) = s.duration

\* The record stored under the presented id when handler p called start has
\* not been removed or replaced since by anything but that call itself.
Intact(p) ==
  \/ recs[proc[p].entry].gone = "no"
  \/ /\ recs[proc[p].entry].gone = "overwritten"
     /\ proc[p].made # Undefined
     /\ MapGet(map, proc[p].cookie) = proc[p].made

\* C2: start presenting the id of a stored record with time left returns
\* that same record with the data written to it, creates no record and
\* writes nothing to the store (nothing else removing or replacing the
\* record meanwhile).
C2_ResumesStoredSession ==
  \A p \in Procs :
    (/\ StartDone(p) /\ proc[p].cookie # "" /\ ~proc[p].failed
     /\ proc[p].entry # Undefined /\ proc[p].entryLive
     /\ Intact(p))
      => /\ proc[p].res = "ok"
         /\ proc[p].ret = proc[p].entry
         /\ proc[p].made = Undefined
         /\ proc[p].entryData \subseteq proc[p].seen

C2_Witness ==
  \E p \in Procs :
    /\ StartDone(p) /\ proc[p].cookie # "" /\ ~proc[p].failed
    /\ proc[p].entry # Undefined /\ proc[p].entryLive
    /\ Intact(p)
    /\ proc[p].ret = proc[p].entry
    /\ proc[p].entryData # {}

\* C3: start presenting the id of a stored but expired record destroys that
\* record and returns a new one with empty data, never the expired record.
C3_ExpiredSessionReplaced ==
  \A p \in Procs :
    (/\ StartDone(p) /\ proc[p].cookie # "" /\ ~proc[p].failed
     /\ proc[p].entry # Undefined /\ ~proc[p].entryLive /\ Quiet(p))
      => /\ proc[p].res = "ok"
         /\ proc[p].ret # proc[p].entry
         /\ proc[p].seen = {}
         /\ ~Stored(proc[p].entry)

\* C4: when flush() has run to completion with nothing else running, every
\* stored record has time left (the expired ones are removed) and flush has
\* removed no record that had.
C4_FlushRemovesExpired ==
  \A p \in Procs :
    (proc[p].op = "flush" /\ proc[p].pc = "done" /\ proc[p].res = "swept"
     /\ ~proc[p].failed /\ Quiet(p) /\ interface = "default")
      => /\ \A i \in 1..Len(map) : GetRemainingSeconds(recs[map[i].rec], now) > 0
         /\ \A r \in 1..Len(recs) :
              recs[r].gone = "flush" => GetRemainingSeconds(recs[r], now) = 0

\* C5: a record's destroy() issues at most one storage delete over all its
\* calls, and a call made once destroy() has succeeded returns success at
\* once.
C5_DestroyIdempotent ==
  /\ \A r \in 1..Len(recs) : recs[r].deletes <= 1
  /\ \A k \in 1..Len(dtasks) :
       dtasks[k].after => dtasks[k].state = "done" /\ dtasks[k].res = "ok"

C5_Witness ==
  \E k \in 1..Len(dtasks) :
    /\ dtasks[k].after /\ dtasks[k].owner = "record"
    /\ dtasks[k].state = "done" /\ dtasks[k].res = "ok"
    /\ recs[dtasks[k].rec].deletes = 1

C7_TimerRemovesExpired ==
  \A r \in 1..MaxOps :
    (/\ r <= Len(recs) /\ Stored(r)
     /\ \E j \in 1..Len(timers) : timers[j].rec = r
     /\ now >= recs[r].expiresAtUnix)
      ~> ~Stored(r)

C7_Witness ==
  \E r \in 1..Len(recs) :
    /\ ~Stored(r) /\ recs[r].gone = "timer"
    /\ recs[r].duration > 0
    /\ now >= recs[r].expiresAtUnix

\* C8: once a record has been removed from storage by session.destroy({id}),
\* by flush or by its own destroy(), no expiry timer of that record is
\* still armed.
C8_RemovalCancelsTimers ==
  \A j \in 1..Len(timers) :
    LET s == recs[timers[j].rec]
    IN  (s.gone \in {"manager", "flush"} \/ (s.gone = "record" /\ s.destroyed))
          => timers[j].state # "armed"

\* C9: if every storage operation reports success, start completes with a
\* success result carrying a session record: it never raises and never
\* returns an absent record.
C9_StartAlwaysSucceeds ==
  \A p \in Procs :
    (StartDone(p) /\ ~proc[p].failed)
      => (proc[p].res = "ok" /\ proc[p].ret # Undefined)

\* C10: once a storage operation called by start has reported a failure,
\* start issues no further storage operation, its record is not in the
\* store, it arms no timer and registers no listener, and it returns the
\* failure.
C10_StartStopsAtFailure ==
  \A p \in Procs :
    (proc[p].op = "start" /\ proc[p].failed)
      => /\ ~proc[p].late
         /\ proc[p].timer = 0
         /\ proc[p].made # Undefined =>
              /\ ~Stored(proc[p].made)
              /\ recs[proc[p].made].callbacks = <<>>
         /\ proc[p].pc = "done" => proc[p].res = "err"

C10_Witness ==
  \E p \in Procs :
    /\ StartDone(p) /\ proc[p].failed /\ proc[p].res = "err"
    /\ proc[p].made # Undefined

\* Handler p is inside a flush sweep: it holds the semaphore.
Sweeping(p) == proc[p].op = "flush" /\ proc[p].pc \in {"isValid", "all"}

\* Handler p calls flush in this step.
FlushCalled(p) ==
  /\ ops' = ops + 1
  /\ proc'[p].op = "flush"
  /\ proc'[p].snap[1] = ops + 1

\* C11: at most one flush sweep is active, the semaphore is held exactly
\* while one is, and a flush() called meanwhile returns in the same step,
\* having scanned nothing, deleted nothing and left nothing to run later.
C11_FlushSemaphore ==
  /\ [](/\ Cardinality({p \in Procs : Sweeping(p)}) <= 1
        /\ flushing <=> \E p \in Procs : Sweeping(p)
        /\ \A p \in Procs :
             proc[p].res = "dropped"
               => proc[p].pc = "done" /\ proc[p].scanned = 0 /\ proc[p].dts = <<>>)
  /\ [][\A p \in Procs :
          (FlushCalled(p) /\ flushing)
            => /\ proc'[p].res = "dropped"
               /\ UNCHANGED <<map, recs, dtasks, timers, flushing>>]_vars

C11_Witness ==
  \E p, q \in Procs :
    /\ proc[p].op = "flush" /\ proc[p].res = "dropped"
    /\ Sweeping(q)

\* C12: session.destroy({id}) returns not-found exactly when no record was
\* stored under id at the call, and then changes nothing; for a stored id
\* it returns success and, nothing else running, the id is no longer
\* stored, so that the next destroy({id}) returns not-found (storage
\* operations succeeding).
C12_ManagerDestroy ==
  /\ [](\A p \in Procs :
          (proc[p].op = "destroy" /\ proc[p].pc = "done" /\ ~proc[p].failed)
            => /\ proc[p].entry = Undefined <=> proc[p].res = "notfound"
               /\ proc[p].entry # Undefined <=> proc[p].res = "ok"
               /\ (proc[p].res = "ok" /\ Quiet(p)) => ~MapHas(map, proc[p].id))
  /\ [][\A p \in Procs :
          (proc[p].op = "destroy" /\ proc[p].pc = "mget" /\ proc'[p].res = "notfound")
            => UNCHANGED <<map, recs, timers, dtasks>>]_vars

C12_Witness ==
  \E p \in Procs :
    /\ proc[p].op = "destroy" /\ proc[p].pc = "done" /\ proc[p].res = "notfound"
    /\ \E r \in 1..Len(recs) : recs[r].id = proc[p].id /\ recs[r].gone = "manager"

\* C13: a flush() that has run to completion with nothing else running has
\* looked at every record held by the operations in place, those installed
\* by setOperations included.
C13_FlushSweepsInstalled ==
  \A p \in Procs :
    (proc[p].op = "flush" /\ proc[p].pc = "done" /\ proc[p].res = "swept"
     /\ ~proc[p].failed /\ Quiet(p))
      => proc[p].scanned = Len(map)

\* The same for the default operations only.
C13_FlushSweepsDefault ==
  \A p \in Procs :
    (proc[p].op = "flush" /\ proc[p].pc = "done" /\ proc[p].res = "swept"
     /\ ~proc[p].failed /\ Quiet(p) /\ interface = "default")
      => proc[p].scanned = Len(map)

\* C14: start presented the id of a record A that a start with no cookie
\* created with a positive lifetime and whose expiry time has passed returns
\* a record whose id is not A's id (storage operations succeeding, nothing
\* else running).
C14_ExpiredIdNotReused ==
  \A p \in Procs :
    (/\ StartDone(p) /\ proc[p].cookie # "" /\ ~proc[p].failed /\ Quiet(p)
     /\ proc[p].entry # Undefined /\ ~proc[p].entryLive
     /\ recs[proc[p].entry].expiresAtUnix > recs[proc[p].entry].createdUnix
     /\ \E q \in Procs : /\ proc[q].op = "start" /\ proc[q].cookie = ""
                          /\ proc[q].made = proc[p].entry)
      => /\ proc[p].res = "ok"
         /\ recs[proc[p].ret].id # recs[proc[p].entry].id

\* C15: the cookie value response() writes for a stored record that has
\* time left and is not destroyed, kept by the browser and presented to the
\* next start, resolves to that same record.
C15_CookieRoundTrip ==
  (/\ http.step = "returned" /\ http.init.kind = "undefined"
   /\ Stored(http.session) /\ ~recs[http.session].destroyed
   /\ GetRemainingSeconds(recs[http.session], now) > 0)
    => http.resolved = http.session

\* C19: the response carries the session's Set-Cookie header,
\* <sessionKey>=<id>; Expires=<date of expiresAtUnix>; Path=/, and every
\* header of init.headers with its value, whatever init.headers is.
C19_ResponseHeaders ==
  http.step = "responded"
    => /\ \E i \in 1..Len(http.headers) :
            /\ http.headers[i].name = "set-cookie"
            /\ http.headers[i].value = SetCookie(recs[http.session])
       /\ \A j \in 1..Len(http.init.entries) :
            \E i \in 1..Len(http.headers) :
              /\ http.headers[i].name = Lower(http.init.entries[j].name)
              /\ http.headers[i].value = http.init.entries[j].value

\* C16: no step changes the id, createdUnix or expiresAtUnix of a record
\* that exists, and expiresAtUnix is createdUnix plus the duration that was
\* configured when the record was created.
C16_RecordTimesFixed ==
  /\ [](\A r \in 1..Len(recs) :
          recs[r].expiresAtUnix = recs[r].createdUnix + recs[r].duration)
  /\ [][/\ Len(recs') >= Len(recs)
        /\ \A r \in 1..Len(recs) :
             /\ recs'[r].id = recs[r].id
             /\ recs'[r].createdUnix = recs[r].createdUnix
             /\ recs'[r].expiresAtUnix = recs[r].expiresAtUnix
             /\ recs'[r].duration = recs[r].duration]_vars

C16_Witness ==
  \E p \in Procs :
    /\ StartDone(p) /\ proc[p].cookie # "" /\ proc[p].res = "ok"
    /\ proc[p].ret = proc[p].entry
    /\ recs[proc[p].ret].duration # durationUnix
    /\ recs[proc[p].ret].data # {}

\* Clock values getRemainingSeconds() is asked at.
Clock == 0..(MaxTime + 1)

\* C17: for every record and clock value, getRemainingSeconds() is
\* expiresAtUnix - now when that is positive and 0 otherwise: never
\* negative, 0 from expiresAtUnix on, and not increasing with the clock.
C17_RemainingSeconds ==
  \A r \in 1..Len(recs) : \A t \in Clock :
    LET s == recs[r]
    IN  /\ GetRemainingSeconds(s, t) =
             (IF s.expiresAtUnix - t > 0 THEN s.expiresAtUnix - t ELSE 0)
        /\ GetRemainingSeconds(s, t) >= 0
        /\ t >= s.expiresAtUnix => GetRemainingSeconds(s, t) = 0
        /\ GetRemainingSeconds(s, t + 1) <= GetRemainingSeconds(s, t)

C17_Witness ==
  /\ \E r \in 1..Len(recs) :
       recs[r].expiresAtUnix < now /\ GetRemainingSeconds(recs[r], now) = 0
  /\ \E r \in 1..Len(recs) :
       /\ GetRemainingSeconds(recs[r], now) = recs[r].expiresAtUnix - now
       /\ GetRemainingSeconds(recs[r], now) > 0

\* C18: every record has expiresAtUnix >= createdUnix.
C18_ExpiresAfterCreated ==
  \A r \in 1..Len(recs) : recs[r].expiresAtUnix >= recs[r].createdUnix

\* Ids isValid is asked about: those in use and one that never is.
AskedIds == GenIds \cup ClientIds \cup {"unknown"}

\* C20: the default isValid(id) returns success, with true exactly when a
\* record is stored under id and its getRemainingSeconds() is positive; for
\* an unknown id it returns success with false.
C20_IsValid ==
  interface = "default" =>
    \A id \in AskedIds :
      /\ ~IsValid(id, "ok").error
      /\ IsValid(id, "ok").flag
           <=> /\ MapHas(map, id)
               /\ GetRemainingSeconds(recs[MapGet(map, id)], now) > 0

C20_Witness ==
  /\ interface = "default"
  /\ \E id \in AskedIds :
       /\ MapHas(map, id)
       /\ GetRemainingSeconds(recs[MapGet(map, id)], now) = 0
       /\ ~IsValid(id, "ok").flag
  /\ \E id \in AskedIds : ~MapHas(map, id) /\ IsValid(id, "ok") = okBool(FALSE)

\* C24: start never replaces a stored record: no record leaves the store
\* because start called set(id, r) over it.
C24_StartNeverOverwrites ==
  \A r \in 1..Len(recs) : recs[r].gone # "overwritten"

\* C21: a session whose destroy() has succeeded is not stored, and no start
\* called after that returns it; the start that then presents its id, alone
\* and with nothing stored under the id, returns the session it has just
\* created, with empty data.
C21_DestroyedStaysGone ==
  /\ \A r \in 1..Len(recs) : recs[r].destroyed => ~Stored(r)
  /\ \A p \in Procs :
       /\ proc[p].ret \notin proc[p].dead
       /\ ( /\ proc[p].op = "start" /\ proc[p].pc = "done" /\ proc[p].res = "ok"
            /\ Quiet(p) /\ proc[p].entry = Undefined
            /\ \E r \in proc[p].dead : recs[r].id = proc[p].cookie )
          => /\ proc[p].ret = proc[p].made
             /\ proc[p].made \notin proc[p].dead
             /\ proc[p].seen = {}

\* A start has returned after presenting the id of a session that had been
\* destroyed before the call.
C21_Witness ==
  \E p \in Procs :
    /\ proc[p].op = "start" /\ proc[p].pc = "done" /\ proc[p].res = "ok"
    /\ Quiet(p) /\ proc[p].entry = Undefined
    /\ \E r \in proc[p].dead : recs[r].id = proc[p].cookie

\* The destroy() call of record r that issued the delete.
InFlight(k) == ~dtasks[k].waited /\ ~dtasks[k].after

\* C22: once the destroy() that issued the delete has returned, every
\* destroy() called on the session while that one was in flight has
\* returned the same outcome.
C22_WaitersShareOutcome ==
  \A k, j \in 1..Len(dtasks) :
    ( /\ dtasks[k].during /\ dtasks[j].rec = dtasks[k].rec
      /\ InFlight(j) /\ dtasks[j].state = "done" )
    => dtasks[k].state = "done" /\ dtasks[k].res = dtasks[j].res

\* C23: a destroy() whose delete failed has returned the failure; its
\* session is not destroyed, none of its callbacks has been called, none of
\* its timers is cleared, and every other destroy() call on it waits without
\* issuing a delete.
C23_FailedDestroy ==
  \A k \in 1..Len(dtasks) :
    (dtasks[k].state = "done" /\ InFlight(k) /\ dtasks[k].att.error)
    => LET r == dtasks[k].rec
       IN  /\ dtasks[k].res = "err"
           /\ ~recs[r].destroyed
           /\ recs[r].invoked = <<>>
           /\ \A j \in 1..Len(timers) : timers[j].rec = r => timers[j].state # "cleared"
           /\ recs[r].deletes = 1
           /\ \A j \in 1..Len(dtasks) :
                (j # k /\ dtasks[j].rec = r) => dtasks[j].waited /\ ~dtasks[j].att.error

\* A delete has failed, and destroy() was called again on the session; the
\* session has a timer.
C23_Witness ==
  \E k, j \in 1..Len(dtasks) :
    /\ dtasks[k].state = "done" /\ InFlight(k) /\ dtasks[k].att.error
    /\ j > k /\ dtasks[j].rec = dtasks[k].rec
    /\ \E t \in 1..Len(timers) : timers[t].rec = dtasks[k].rec

\* C25: no callback that destroy() has called was one removeEventListener
\* had been called for (and that was not added again).
C25_RemovedNotInvoked ==
  \A r \in 1..Len(recs) : \A i \in 1..Len(recs[r].invoked) :
    recs[r].invoked[i].kind = "user" => recs[r].invoked[i].n \notin recs[r].removed

\* C26: destroy() calls the callbacks once, when it completes: all those
\* registered by then, in the order of registration, after its delete has
\* succeeded and in the step that returns; none while the session is not
\* destroyed or for a destroy() that failed, and none again afterwards.
C26_ListenersOnce ==
  /\ [](\A r \in 1..Len(recs) :
          /\ ~recs[r].destroyed => recs[r].invoked = <<>>
          /\ Len(recs[r].invoked) <= Len(recs[r].callbacks)
          /\ recs[r].invoked = SubSeq(recs[r].callbacks, 1, Len(recs[r].invoked))
          /\ recs[r].invoked # <<>> =>
               \E k \in 1..Len(dtasks) :
                 /\ dtasks[k].rec = r /\ InFlight(k) /\ ~dtasks[k].att.error
                 /\ dtasks[k].state = "done" /\ dtasks[k].res = "ok")
  /\ [](\A k \in 1..Len(dtasks) :
          dtasks[k].res = "err" => recs[dtasks[k].rec].invoked = <<>>)
  /\ [][\A r \in 1..Len(recs) :
          /\ (~recs[r].destroyed /\ recs'[r].destroyed) => recs'[r].invoked = recs[r].callbacks
          /\ recs[r].destroyed => recs'[r].invoked = recs[r].invoked]_vars

\* A session with a registered listener was destroyed, and destroy() was
\* called on it again.
C26_Witness ==
  \E r \in 1..Len(recs) :
    /\ recs[r].destroyed
    /\ \E i \in 1..Len(recs[r].invoked) : recs[r].invoked[i].kind = "user"
    /\ \E k \in 1..Len(dtasks) : dtasks[k].rec = r /\ dtasks[k].after

\* C28: a flush() that has taken the semaphore goes on to return with the
\* semaphore released.
C28_FlushCompletes ==
  \A p \in Procs :
    (proc[p].op = "flush" /\ proc[p].pc \in {"isValid", "all"})
      ~> (proc[p].pc = "done" /\ proc[p].res = "swept" /\ ~flushing)

\* A flush() has returned after a storage operation reported a failure to
\* it.
C28_Witness ==
  \E p \in Procs :
    proc[p].op = "flush" /\ proc[p].res = "swept" /\ proc[p].failed /\ ~flushing

\* C29: a session created under an id after session.destroy({ id }) removed
\* the one before is not removed, while it has time left, by the timer of
\* another session.
C29_TimerRemovesOwnRecord ==
  \A a, r \in 1..Len(recs) :
    (a < r /\ recs[a].id = recs[r].id /\ recs[a].gone = "manager")
      => recs[r].gone # "strayTimer"

\* C30: no record that start created for a presented cookie is stored: the
\* ids of the stored records all come from uuid().
C30_OnlyMintedIds ==
  \A p \in Procs :
    (proc[p].op = "start" /\ proc[p].cookie # "" /\ proc[p].made # Undefined)
      => ~Stored(proc[p].made)

\* C31: a stored session has at most one armed timer, and at most one
\* callback that clears a timer still armed.
C31_OneTimerPerRecord ==
  \A r \in 1..Len(recs) :
    Stored(r) =>
      /\ Cardinality({j \in 1..Len(timers) :
                        timers[j].rec = r /\ timers[j].state = "armed"}) <= 1
      /\ Cardinality({i \in 1..Len(recs[r].callbacks) :
                        /\ recs[r].callbacks[i].kind = "clear"
                        /\ timers[recs[r].callbacks[i].n].state = "armed"}) <= 1

\* C33: in session.js's Map every key is the id of the session stored under
\* it, and no key is the empty string.
C33_KeysAreIds ==
  \A i \in 1..Len(LibraryMap) :
    LibraryMap[i].id = recs[LibraryMap[i].rec].id /\ LibraryMap[i].id # ""

\* A flush has swept session.js's Map, which holds a session.
C33_Witness ==
  /\ Len(LibraryMap) > 0
  /\ \E p \in Procs : proc[p].op = "flush" /\ proc[p].res = "swept"

\* C34: while start with no cookie awaits exists, exists was called with
\* the current candidate; when exists reports the candidate unused, start
\* goes on to has() with that candidate, and when it reports it used, start
\* calls exists again; the id start goes on with, and creates a session
\* under, is the one exists was last called with and reported unused.
C34_MintLoop ==
  /\ [](\A p \in Procs :
          (proc[p].op = "start" /\ proc[p].cookie = "") =>
            /\ proc[p].asked = proc[p].id
            /\ proc[p].pc \in {"has", "get", "set"} => proc[p].free
            /\ proc[p].made # Undefined =>
                 proc[p].free /\ recs[proc[p].made].id = proc[p].asked)
  /\ [][\A p \in Procs :
          ( /\ proc[p].pc = "exists" /\ ~proc[p].att.error
            /\ proc'[p] # proc[p] )
          => IF proc[p].att.flag
             THEN proc'[p].pc = "exists"
             ELSE proc'[p].pc = "has" /\ proc'[p].id = proc[p].id]_vars

\* A start with no cookie has returned a session after giving up a
\* candidate that exists reported used.
C34_Witness ==
  \E p \in Procs :
    /\ StartDone(p) /\ proc[p].cookie = "" /\ proc[p].res = "ok"
    /\ proc[p].retried /\ proc[p].made # Undefined

\* C32: sessions with different ids have different Maps as data; the
\* session start returns has the id start resolved; and the data of a
\* session changes only when a handler holds a session of the same id.
C32_Isolation ==
  /\ [](\A r1, r2 \in 1..Len(recs) :
          recs[r1].id # recs[r2].id => recs[r1].dataMap # recs[r2].dataMap)
  /\ [](\A p \in Procs :
          (StartDone(p) /\ proc[p].res = "ok") => recs[proc[p].ret].id = proc[p].id)
  /\ [][\A r \in 1..Len(recs) :
          recs'[r].data # recs[r].data =>
            \E p \in Procs :
              /\ Returned(p) /\ proc[p].ret # Undefined
              /\ recs[proc[p].ret].id = recs[r].id]_vars

\* Two handlers hold sessions of different ids; one has written into its
\* session's data and the data of the other is empty.
C32_Witness ==
  \E p, q \in Procs :
    /\ proc[p].ret # Undefined /\ proc[q].ret # Undefined
    /\ recs[proc[p].ret].id # recs[proc[q].ret].id
    /\ recs[proc[p].ret].data # {} /\ recs[proc[q].ret].data = {}

\* The lowercase hexadecimal digits.
HexDigits == {"0", "1", "2", "3", "4", "5", "6", "7", "8", "9", "a", "b", "c", "d", "e", "f"}

\* C35: the token uuid() returns is made of lowercase hexadecimal digits, in
\* groups of 8, 4, 4, 4 and 12 with a hyphen between them (8 digits and no
\* hyphen when short), and holds 8, 9, a or b wherever BLUEPRINT has a y.
C35_UuidFormat ==
  gen.step = "returned" =>
    LET token == gen.result
    IN  /\ Len(token) = IF gen.short THEN 8 ELSE 36
        /\ \A i \in 1..Len(token) :
             IF ~gen.short /\ i \in {9, 14, 19, 24}
             THEN token[i] = "-"
             ELSE token[i] \in HexDigits
        /\ \A i \in 1..Len(token) :
             Blueprint(gen.short)[i] = "y" => token[i] \in {"8", "9", "a", "b"}

\* uuid() has returned a token of the long form whose second y became b and
\* whose first digit is f.
C35_Witness ==
  /\ gen.step = "returned" /\ ~gen.short
  /\ gen.result[20] = "b" /\ gen.result[1] = "f"

====
